---- MODULE Spec2Model ----
(***************************************************************************)
(* Friendship-request workflow of                                          *)
(* src/server/api/routers/friendship-request-router.ts: the tRPC           *)
(* procedures send, accept and decline over the friendships table.         *)
(*                                                                         *)
(* Spec      every call runs to completion before the next one starts.     *)
(* SpecConc  requests run concurrently; a guard query, a handler           *)
(*           statement and the commit of accept's transaction are the      *)
(*           atomic steps.                                                 *)
(***************************************************************************)
EXTENDS Naturals, FiniteSets, Bags

\* ------------------------------------------------------------------ bounds
\* Rows of the users table: ids 1..NumUsers.
NumUsers == 3
\* Calls made in one behaviour of Spec.
MaxCalls == 4

Users == 1 .. NumUsers
\* Values of friendUserId that pass IdSchema: the users, and NumUsers + 1,
\* an id that has no row in users.
Ids == 1 .. (NumUsers + 1)
Pairs == Ids \X Ids

\* FriendshipStatusSchema
Status == {"requested", "accepted", "declined"}

\* ------------------------------------------------------- friendships table
\* The table is the bag of its rows (userId, friendUserId, status).  The
\* autoincrement id and the timestamps of a row are never read by the
\* handlers beyond the row's existence.
Row(a, b, s) == [userId |-> a, friendUserId |-> b, status |-> s]
EmptyTable == EmptyBag

\* the rows WHERE userId = a AND friendUserId = b, counted by status
RowsFor(t, a, b) == [s \in Status |-> CopiesIn(Row(a, b, s), t)]

\* number of rows WHERE userId = a AND friendUserId = b
Count(t, a, b) ==
  RowsFor(t, a, b)["requested"] + RowsFor(t, a, b)["accepted"]
    + RowsFor(t, a, b)["declined"]

\* the status of the edge (a, b) when the pair has exactly one row
StatusOf(t, a, b) ==
  IF Count(t, a, b) = 0 THEN "absent"
  ELSE IF Count(t, a, b) > 1 THEN "duplicate"
  ELSE CHOOSE s \in Status : RowsFor(t, a, b)[s] = 1

\* Faulty variant: the update has lost its condition on friendUserId and
\* matches every row of userId a.
updateTableAnyFriend(t, a, b, s) ==
  LET hit == {r \in BagToSet(t) : r.userId = a}
  IN  IF hit = {} THEN t
      ELSE (t (-) [r \in hit |-> CopiesIn(r, t)])
             (+) [x \in {Row(a, r.friendUserId, s) : r \in hit}
                    |-> Count(t, a, x.friendUserId)]

\* UPDATE friendships SET status = s WHERE userId = a AND friendUserId = b
updateTable(t, a, b, s) ==
  LET hit == {r \in BagToSet(t) : r.userId = a /\ r.friendUserId = b}
  IN  IF hit = {} THEN t
      ELSE (t (-) [r \in hit |-> CopiesIn(r, t)])
             (+) [r \in {Row(a, b, s)} |-> Count(t, a, b)]

\* The table is keyed by (userId, friendUserId): an INSERT of a pair that
\* already has a row is rejected by the store.
UniqueKey(t, a, b) == Count(t, a, b) = 0

\* INSERT INTO friendships VALUES (a, b, s): the new table, or the table
\* unchanged with ok = FALSE when the store rejects the row.
insertInto(t, a, b, s) ==
  IF UniqueKey(t, a, b)
  THEN [ok |-> TRUE, table |-> t (+) SetToBag({Row(a, b, s)})]
  ELSE [ok |-> FALSE, table |-> t]

\* ------------------------------------------------------------------ guards
\* Faulty variant: the guard lets every id through.
canSendAnyone(friendUserId) == TRUE

\* SELECT id FROM users WHERE id = friendUserId LIMIT 1, or BAD_REQUEST
canSendFriendshipRequest(friendUserId) == friendUserId \in Users

\* Faulty variant: the guard does not look at the status of the row.
canAnswerAnyStatus(t, userId, friendUserId) == Count(t, friendUserId, userId) > 0

\* Faulty variant: the guard has lost its condition on the session's user.
canAnswerAnySession(t, userId, friendUserId) ==
  \E r \in BagToSet(t) : r.userId = friendUserId /\ r.status = "requested"

\* SELECT id FROM friendships WHERE userId = friendUserId
\*   AND friendUserId = session.userId AND status = 'requested' LIMIT 1,
\* or BAD_REQUEST
canAnswerFriendshipRequest(t, userId, friendUserId) ==
  CopiesIn(Row(friendUserId, userId, "requested"), t) > 0

\* ---------------------------------------------------------------- handlers
\* Faulty variant: the select does not exclude accepted rows.
existingRequestAnyStatus(t, userId, friendUserId) == Count(t, userId, friendUserId) > 0

\* Faulty variant: the select never finds a row (send always inserts).
existingRequestNever(t, userId, friendUserId) == FALSE

\* send: SELECT status FROM friendships WHERE userId = .. AND
\* friendUserId = .. AND status != 'accepted'
existingRequest(t, userId, friendUserId) ==
  \E r \in BagToSet(t) :
    r.userId = userId /\ r.friendUserId = friendUserId /\ r.status # "accepted"

\* The outcome of a handler: the table it leaves, its result and the write
\* it issued.
Outcome(t, result, branch) == [table |-> t, result |-> result, branch |-> branch]

\* send's mutation
sendMutation(t, userId, friendUserId) ==
  IF existingRequest(t, userId, friendUserId)
  THEN Outcome(updateTable(t, userId, friendUserId, "requested"), "ok", "update")
  ELSE LET ins == insertInto(t, userId, friendUserId, "requested")
       IN  Outcome(ins.table, IF ins.ok THEN "ok" ELSE "DB_ERROR", "insert")

\* send behind canSendFriendshipRequest
send(t, userId, friendUserId) ==
  IF ~canSendFriendshipRequest(friendUserId)
  THEN Outcome(t, "BAD_REQUEST", "none")
  ELSE sendMutation(t, userId, friendUserId)

\* accept, first statement: the request row becomes accepted
acceptRequest(t, userId, friendUserId) ==
  updateTable(t, friendUserId, userId, "accepted")

\* accept: SELECT * FROM friendships WHERE userId = session.userId AND
\* friendUserId = input.friendUserId
existingFriendship(t, userId, friendUserId) == Count(t, userId, friendUserId) > 0

\* Faulty variant: the reverse row is inserted when absent and left alone otherwise.
acceptReverseInsertOnly(t, userId, friendUserId) ==
  IF ~existingFriendship(t, userId, friendUserId)
  THEN LET ins == insertInto(t, userId, friendUserId, "accepted")
       IN  Outcome(ins.table, IF ins.ok THEN "ok" ELSE "DB_ERROR", "insert")
  ELSE Outcome(t, "ok", "none")

\* accept, second statement: the reverse row is inserted or updated
acceptReverse(t, userId, friendUserId) ==
  IF ~existingFriendship(t, userId, friendUserId)
  THEN LET ins == insertInto(t, userId, friendUserId, "accepted")
       IN  Outcome(ins.table, IF ins.ok THEN "ok" ELSE "DB_ERROR", "insert")
  ELSE Outcome(updateTable(t, userId, friendUserId, "accepted"), "ok", "update")

\* the body of accept's transaction; a statement that throws rolls it back
acceptTransaction(t, userId, friendUserId) ==
  LET r == acceptReverse(acceptRequest(t, userId, friendUserId), userId, friendUserId)
  IN  IF r.result = "ok" THEN r ELSE Outcome(t, r.result, r.branch)

\* accept behind canAnswerFriendshipRequest
accept(t, userId, friendUserId) ==
  IF ~canAnswerFriendshipRequest(t, userId, friendUserId)
  THEN Outcome(t, "BAD_REQUEST", "none")
  ELSE acceptTransaction(t, userId, friendUserId)

\* Faulty variant: the update also matches the reverse row.
declineBothDirections(t, userId, friendUserId) ==
  updateTable(updateTable(t, friendUserId, userId, "declined"),
              userId, friendUserId, "declined")

\* Faulty variant: decline deletes the request row.
declineDeletes(t, userId, friendUserId) ==
  LET hit == {r \in BagToSet(t) : r.userId = friendUserId /\ r.friendUserId = userId}
  IN  t (-) [r \in hit |-> CopiesIn(r, t)]

\* decline's mutation
declineMutation(t, userId, friendUserId) ==
  updateTable(t, friendUserId, userId, "declined")

\* decline behind canAnswerFriendshipRequest
decline(t, userId, friendUserId) ==
  IF ~canAnswerFriendshipRequest(t, userId, friendUserId)
  THEN Outcome(t, "BAD_REQUEST", "none")
  ELSE Outcome(declineMutation(t, userId, friendUserId), "ok", "update")

\* Faulty variant: accept's statements run on the connection, outside the
\* transaction.
notInTransaction == FALSE

\* accept's statements run on the transaction t of
\* ctx.db.transaction().execute
inTransaction == TRUE

\* ------------------------------------------------------------------- state
\* Requests in flight at a time in SpecConc.
MaxReqs == 2
\* Requests that arrive in one behaviour of SpecConc.
MaxArrivals == 3

VARIABLES
  table,   \* the friendships table, as committed
  pre,     \* Spec: the table as the last call found it
  last,    \* Spec: the last call and its outcome
  calls,   \* calls made so far
  reqs,    \* SpecConc: the bag of requests in flight, each with its position
  txn      \* SpecConc: the open transaction and the table as it sees it

vars == <<table, pre, last, calls, reqs, txn>>

NoCall == [op |-> "none", userId |-> 0, friendUserId |-> 0,
           result |-> "none", branch |-> "none"]

NoTxn == [open |-> FALSE, work |-> EmptyTable]

Init ==
  /\ table = EmptyTable
  /\ pre = EmptyTable
  /\ last = NoCall
  /\ calls = 0
  /\ reqs = EmptyBag
  /\ txn = NoTxn

\* ------------------------------------------------- Spec: one call at a time
\* A whole call by the session of userId, run to completion.
Call(op, userId, friendUserId, out) ==
  /\ calls < MaxCalls
  /\ calls' = calls + 1
  /\ pre' = table
  /\ table' = out.table
  /\ last' = [op |-> op, userId |-> userId, friendUserId |-> friendUserId,
              result |-> out.result, branch |-> out.branch]
  /\ UNCHANGED <<reqs, txn>>

Send ==
  \E u \in Users, f \in Ids : Call("send", u, f, send(table, u, f))

Accept ==
  \E u \in Users, f \in Ids : Call("accept", u, f, accept(table, u, f))

Decline ==
  \E u \in Users, f \in Ids : Call("decline", u, f, decline(table, u, f))

Next == Send \/ Accept \/ Decline

Spec == Init /\ [][Next]_vars

\* ------------------------------------------- SpecConc: concurrent requests
\* A request in flight: its procedure, its session's user, its input, the
\* statement it runs next and what send's select returned.
Request(op, u, f, pc, found) ==
  [op |-> op, userId |-> u, friendUserId |-> f, pc |-> pc, found |-> found]

InFlight == BagToSet(reqs)

Finish(r) == reqs' = reqs (-) SetToBag({r})

Advance(r, pc, found) ==
  reqs' = (reqs (-) SetToBag({r}))
            (+) SetToBag({Request(r.op, r.userId, r.friendUserId, pc, found)})

\* A request arrives and its guard query passes; the request waits for its
\* handler's first statement.
Arrive(op, u, f, pc) ==
  /\ calls < MaxArrivals
  /\ BagCardinality(reqs) < MaxReqs
  /\ calls' = calls + 1
  /\ reqs' = reqs (+) SetToBag({Request(op, u, f, pc, FALSE)})
  /\ UNCHANGED <<table, pre, last, txn>>

\* the guard throws BAD_REQUEST: the handler never runs and nothing changes
Rejected == UNCHANGED vars

SendGuard ==
  \E u \in Users, f \in Ids :
    /\ canSendFriendshipRequest(f)
    /\ Arrive("send", u, f, "select")

SendRejected ==
  /\ {f \in Ids : ~canSendFriendshipRequest(f)} # {}
  /\ Rejected

AnswerGuard ==
  \E u \in Users, f \in Ids, op \in {"accept", "decline"} :
    /\ canAnswerFriendshipRequest(table, u, f)
    /\ Arrive(op, u, f, "update")

AnswerRejected ==
  /\ {p \in Users \X Ids : ~canAnswerFriendshipRequest(table, p[1], p[2])} # {}
  /\ Rejected

\* send: the select of existingRequest
SendSelect ==
  \E r \in InFlight :
    /\ r.op = "send" /\ r.pc = "select"
    /\ Advance(r, "write", existingRequest(table, r.userId, r.friendUserId))
    /\ UNCHANGED <<table, pre, last, calls, txn>>

\* send: the update or the insert the select chose; a write waits for an
\* open transaction to end
SendWrite ==
  \E r \in InFlight :
    /\ r.op = "send" /\ r.pc = "write"
    /\ ~txn.open
    /\ table' = IF r.found
                THEN updateTable(table, r.userId, r.friendUserId, "requested")
                ELSE insertInto(table, r.userId, r.friendUserId, "requested").table
    /\ Finish(r)
    /\ UNCHANGED <<pre, last, calls, txn>>

\* decline: its update
DeclineUpdate ==
  \E r \in InFlight :
    /\ r.op = "decline" /\ r.pc = "update"
    /\ ~txn.open
    /\ table' = declineMutation(table, r.userId, r.friendUserId)
    /\ Finish(r)
    /\ UNCHANGED <<pre, last, calls, txn>>

\* accept: the transaction begins and its first statement runs
AcceptUpdate ==
  \E r \in InFlight :
    /\ r.op = "accept" /\ r.pc = "update"
    /\ ~txn.open
    /\ Advance(r, "reverse", FALSE)
    /\ IF inTransaction
       THEN /\ txn' = [open |-> TRUE,
                       work |-> acceptRequest(table, r.userId, r.friendUserId)]
            /\ table' = table
       ELSE /\ table' = acceptRequest(table, r.userId, r.friendUserId)
            /\ txn' = txn
    /\ UNCHANGED <<pre, last, calls>>

\* accept: the select of existingFriendship and the insert or update; the
\* callback then returns and the transaction commits, or the statement throws
\* and the transaction is rolled back
AcceptReverse ==
  \E r \in InFlight :
    /\ r.op = "accept" /\ r.pc = "reverse"
    /\ IF inTransaction
       THEN LET out == acceptReverse(txn.work, r.userId, r.friendUserId)
            IN  /\ txn.open
                /\ table' = IF out.result = "ok" THEN out.table ELSE table
                /\ txn' = NoTxn
       ELSE /\ table' = acceptReverse(table, r.userId, r.friendUserId).table
            /\ txn' = txn
    /\ Finish(r)
    /\ UNCHANGED <<pre, last, calls>>

\* accept: the data-access layer fails the second statement; the error
\* leaves the callback and the transaction is rolled back
AcceptFails ==
  \E r \in InFlight :
    /\ r.op = "accept" /\ r.pc = "reverse"
    /\ txn' = NoTxn
    /\ Finish(r)
    /\ UNCHANGED <<table, pre, last, calls>>

NextConc ==
  \/ SendGuard
  \/ SendRejected
  \/ AnswerGuard
  \/ AnswerRejected
  \/ SendSelect
  \/ SendWrite
  \/ DeclineUpdate
  \/ AcceptUpdate
  \/ AcceptReverse
  \/ AcceptFails

SpecConc == Init /\ [][NextConc]_vars

\* ------------------------------------------------------------ properties
\* The edge a call answers, (friendUserId, userId), and its reverse.
AnsweredBefore == StatusOf(pre, last.friendUserId, last.userId)
AnsweredAfter == StatusOf(table, last.friendUserId, last.userId)
ReverseBefore == StatusOf(pre, last.userId, last.friendUserId)
ReverseAfter == StatusOf(table, last.userId, last.friendUserId)

\* C1: whenever edge (f,u) is requested and u calls accept(f), the call
\* succeeds and both (f,u) and (u,f) are accepted afterwards, whatever the
\* reverse edge was before.
C1_AcceptYieldsTwoAccepted ==
  (last.op = "accept" /\ AnsweredBefore = "requested")
    => /\ last.result = "ok"
       /\ AnsweredAfter = "accepted"
       /\ ReverseAfter = "accepted"

\* an accept of a requested edge whose reverse edge had been declined
C1_Witness ==
  /\ last.op = "accept"
  /\ last.userId # last.friendUserId
  /\ AnsweredBefore = "requested"
  /\ ReverseBefore = "declined"
  /\ ReverseAfter = "accepted"

\* C2: after any sequence of complete calls accepted status is symmetric.
C2_AcceptedSymmetric ==
  \A u \in Ids, v \in Ids :
    StatusOf(table, u, v) = "accepted" <=> StatusOf(table, v, u) = "accepted"

\* two friends, one of whom has just sent the other a further request
C2_Witness ==
  /\ last.op = "send"
  /\ last.userId # last.friendUserId
  /\ ReverseBefore = "accepted"
  /\ ReverseAfter = "accepted"
  /\ AnsweredAfter = "accepted"

\* C3: send(v) by u on an existing declined or requested edge (u,v) succeeds
\* by updating it, and leaves exactly one row (u,v), with status requested.
C3_SendReopens ==
  (last.op = "send" /\ ReverseBefore \in {"declined", "requested"})
    => /\ last.result = "ok"
       /\ last.branch = "update"
       /\ Count(table, last.userId, last.friendUserId) = 1
       /\ ReverseAfter = "requested"

\* a send after the earlier request had been declined
C3_Witness ==
  /\ last.op = "send"
  /\ ReverseBefore = "declined"
  /\ ReverseAfter = "requested"
  /\ last.result = "ok"

\* C4: decline(f) by u on a requested edge (f,u) leaves it declined and
\* leaves every other pair, the reverse pair (u,f) included, as it was: no
\* row is created.
C4_DeclineFrame ==
  (last.op = "decline" /\ AnsweredBefore = "requested")
    => /\ last.result = "ok"
       /\ AnsweredAfter = "declined"
       /\ \A p \in Pairs \ {<<last.friendUserId, last.userId>>} :
            RowsFor(table, p[1], p[2]) = RowsFor(pre, p[1], p[2])

\* a decline while the decliner's own request to the sender is pending
C4_Witness ==
  /\ last.op = "decline"
  /\ last.userId # last.friendUserId
  /\ AnsweredBefore = "requested"
  /\ AnsweredAfter = "declined"
  /\ ReverseBefore = "requested"
  /\ ReverseAfter = "requested"

\* C5: accept(f) and decline(f) by u fail with BAD_REQUEST and leave the
\* table unchanged whenever no row (f,u) has status requested.
C5_AnswerNeedsPendingRequest ==
  (/\ last.op \in {"accept", "decline"}
   /\ RowsFor(pre, last.friendUserId, last.userId)["requested"] = 0)
    => /\ last.result = "BAD_REQUEST"
       /\ table = pre

\* an answer to an edge that is already accepted
C5_Witness ==
  /\ last.op \in {"accept", "decline"}
  /\ last.userId # last.friendUserId
  /\ AnsweredBefore = "accepted"
  /\ last.result = "BAD_REQUEST"

\* C6: send(f) fails with BAD_REQUEST and leaves the table unchanged when f
\* is not a user; when f is a user the guard passes and the mutation issues
\* its write.
C6_SendNeedsExistingUser ==
  last.op = "send"
    => /\ last.friendUserId \notin Users
            => last.result = "BAD_REQUEST" /\ last.branch = "none" /\ table = pre
       /\ last.friendUserId \in Users
            => last.result # "BAD_REQUEST" /\ last.branch \in {"insert", "update"}

\* a send to an id that is no user, made when the table holds edges
C6_Witness ==
  /\ last.op = "send"
  /\ last.friendUserId \notin Users
  /\ last.result = "BAD_REQUEST"
  /\ table # EmptyTable

C10_Transitions ==
  \A u \in Ids, v \in Ids :
    LET a == StatusOf(pre, u, v)
        b == StatusOf(table, u, v)
    IN  /\ a = "accepted" => b = "accepted"
        /\ (a # "absent" /\ a # b)
             => /\ <<a, b>> \in {<<"requested", "accepted">>, <<"requested", "declined">>,
                                <<"declined", "requested">>, <<"declined", "accepted">>}
                /\ <<a, b>> = <<"declined", "accepted">>
                     => last.op = "accept" /\ last.userId = u /\ last.friendUserId = v

\* a decline aimed at an accepted edge, which stays accepted
C10_Witness ==
  /\ last.op = "decline"
  /\ last.userId # last.friendUserId
  /\ AnsweredBefore = "accepted"
  /\ AnsweredAfter = "accepted"
  /\ ReverseAfter = "accepted"

\* C7: accept is atomic for the other requests: in no step does the committed
\* table show edge (f,u) turned accepted without the reverse edge (u,f)
\* accepted in the same state, also when the second statement fails.
C7_AcceptAtomic ==
  [][\A u \in Ids, f \in Ids :
       (StatusOf(table, f, u) # "accepted" /\ StatusOf(table', f, u) = "accepted")
         => StatusOf(table', u, f) = "accepted"]_vars

\* an accept between its two statements, with another request in flight: the
\* transaction sees (f,u) accepted, the committed table still shows it requested
C7_Witness ==
  \E r \in InFlight :
    /\ r.op = "accept" /\ r.pc = "reverse"
    /\ r.userId # r.friendUserId
    /\ txn.open
    /\ StatusOf(txn.work, r.friendUserId, r.userId) = "accepted"
    /\ StatusOf(txn.work, r.userId, r.friendUserId) # "accepted"
    /\ StatusOf(table, r.friendUserId, r.userId) = "requested"
    /\ BagCardinality(reqs) > 1

\* C8 (as stated): once every concurrent request has completed, accepted
\* status is symmetric.
C8_QuiescentSymmetric ==
  reqs = EmptyBag
    => \A u \in Ids, v \in Ids :
         StatusOf(table, u, v) = "accepted" => StatusOf(table, v, u) = "accepted"

\* C11: a call by the session of s with input f changes rows of the pairs of
\* s and f only: send of (s,f), decline of (f,s), accept of (f,s) and (s,f);
\* the rows of every other pair, those of any third user included, stay.
C11_Frame ==
  last.op # "none"
    => \A p \in Pairs :
         RowsFor(table, p[1], p[2]) # RowsFor(pre, p[1], p[2])
           => \/ last.op = "send" /\ p = <<last.userId, last.friendUserId>>
              \/ last.op = "decline" /\ p = <<last.friendUserId, last.userId>>
              \/ last.op = "accept" /\ p \in {<<last.friendUserId, last.userId>>,
                                             <<last.userId, last.friendUserId>>}

\* an accept by a user who holds a pending request of a third user as well:
\* that request is still pending afterwards
C11_Witness ==
  /\ last.op = "accept"
  /\ last.result = "ok"
  /\ last.userId # last.friendUserId
  /\ AnsweredAfter = "accepted"
  /\ \E w \in Users \ {last.userId, last.friendUserId} :
       /\ StatusOf(pre, w, last.userId) = "requested"
       /\ StatusOf(table, w, last.userId) = "requested"

\* a send by u = last.userId to an existing user f = last.friendUserId while
\* no edge (u,f) exists
SendsFirstRequest ==
  /\ last.op = "send"
  /\ last.friendUserId \in Users
  /\ ReverseBefore = "absent"

\* the send has added one row, (u,f,requested), and nothing else
CreatedPendingEdge ==
  /\ last.result = "ok"
  /\ last.branch = "insert"
  /\ table = pre (+) SetToBag({Row(last.userId, last.friendUserId, "requested")})

\* C12 (as stated): after such a send the session of f, and no session but
\* that of f, passes the guard of accept(u) and decline(u).
C12_OnlyRecipientPasses ==
  SendsFirstRequest
    => /\ CreatedPendingEdge
       /\ \A w \in Users :
            canAnswerFriendshipRequest(table, w, last.userId) <=> w = last.friendUserId

\* C12 (amended): after such a send the session of f passes the guard of
\* accept(u) and decline(u), and any other session passes it exactly if it
\* did before the send; the reverse edge (f,u) makes no difference.
C12_SendCreatesPending ==
  SendsFirstRequest
    => /\ CreatedPendingEdge
       /\ canAnswerFriendshipRequest(table, last.friendUserId, last.userId)
       /\ \A w \in Users \ {last.friendUserId} :
            canAnswerFriendshipRequest(table, w, last.userId)
              <=> canAnswerFriendshipRequest(pre, w, last.userId)

\* a first request of u to f, made while f's own request to u is pending and
\* while an earlier request of u to a third user is pending too
C12_Witness ==
  /\ SendsFirstRequest
  /\ last.userId # last.friendUserId
  /\ AnsweredBefore = "requested"
  /\ ReverseAfter = "requested"
  /\ canAnswerFriendshipRequest(table, last.friendUserId, last.userId)
  /\ \E w \in Users \ {last.userId, last.friendUserId} :
       canAnswerFriendshipRequest(table, w, last.userId)

\* request r takes its step: one copy of it leaves its place in the bag
Steps(r) == CopiesIn(r, reqs') < CopiesIn(r, reqs)

\* C13 (as stated): the update of a decline or an accept changes edge (f,u)
\* only if the edge is requested at the moment the update is applied, also
\* when guards and updates of concurrent requests interleave.
C13_AnswerOnlyRequested ==
  [][\A r \in InFlight :
       (/\ r.pc = "update"
        /\ Steps(r)
        /\ \/ /\ r.op = "decline"
              /\ StatusOf(table', r.friendUserId, r.userId)
                   # StatusOf(table, r.friendUserId, r.userId)
           \/ /\ r.op = "accept"
              /\ StatusOf(IF inTransaction THEN txn'.work ELSE table',
                          r.friendUserId, r.userId)
                   # StatusOf(table, r.friendUserId, r.userId))
         => StatusOf(table, r.friendUserId, r.userId) = "requested"]_vars

\* the ordered pairs that have an edge
Edges(t) == {p \in Pairs : Count(t, p[1], p[2]) > 0}

\* C14: no call deletes an edge: across every call, successful or failing,
\* the set of ordered pairs that have an edge does not shrink, and a failing
\* call adds nothing to it.
C14_EdgesNeverShrink ==
  /\ Edges(pre) \subseteq Edges(table)
  /\ last.result \in {"BAD_REQUEST", "DB_ERROR"} => Edges(table) = Edges(pre)

\* a decline that has succeeded: the declined edge is still in the table
C14_Witness ==
  /\ last.op = "decline"
  /\ last.result = "ok"
  /\ AnsweredAfter = "declined"
  /\ <<last.friendUserId, last.userId>> \in Edges(pre) \cap Edges(table)
  /\ Edges(table) = Edges(pre)

====
